---- MODULE Spec2Model ----
(***************************************************************************)
(* Blogicum (Django blog): the stored records (users, categories,          *)
(* locations, posts, comments), the request handlers of blog/views.py and  *)
(* the admin operations of blog/admin.py, as a state machine.  Every       *)
(* handler is one action; it leaves the last request and its response in   *)
(* the variable response.                                                  *)
(*                                                                         *)
(* Primary keys are positive integers; 0 stands for a null foreign key     *)
(* and for the anonymous requester (whose pk is None).  Times are          *)
(* integers.  Post.title, text and image, and the first/last name and      *)
(* e-mail of a user, do not influence any handler's control flow and are   *)
(* left out; Comment.text is kept as a small value so that an edit shows.  *)
(***************************************************************************)
EXTENDS Integers, Sequences, FiniteSets, TLC

VARIABLES
    users,       \* pk -> username, for the existing users
    categories,  \* slug -> [is_published], for the existing categories
    locations,   \* pk -> [is_published], for the existing locations
    posts,       \* pk -> [author, is_published, category, location, pub_date,
                 \*        created_at]
    comments,    \* pk -> [post, author, created_at, text]
    nextUser,    \* next primary key of the user table
    nextPost,    \* next primary key of the post table
    nextComment, \* next primary key of the comment table
    now,         \* timezone.now()
    loaded,      \* the time at which blog/views.py was imported
    response     \* the last request with its response

vars == <<users, categories, locations, posts, comments, nextUser, nextPost,
          nextComment, now, loaded, response>>

db == <<users, categories, locations, posts, comments, nextUser, nextPost,
        nextComment>>

----------------------------------------------------------------------------
(* Bounds of the model                                                     *)

\* Posts created in Spec, SpecComments and SpecStore.
MaxPosts == 1
\* Posts created in SpecPages.
MaxListed == 2
\* Comments created in SpecComments.
MaxComments == 2
\* Comments created in SpecStore.
MaxStored == 1
\* The last value of the clock; pub_date ranges over the same times.
MaxTime == 1
\* Users registered.
MaxUsers == 2
UserPks == 1..MaxUsers
Usernames == {"ann", "bob"}
Slugs == {"news"}
LocationPks == {1}
Texts == {"a", "b"}
Times == 0..MaxTime
PostPks == 1..MaxListed
CommentPks == 1..MaxComments

(* Program constants                                                       *)

\* A null foreign key (null=True).
None == 0
\* The pk of the anonymous requester (request.user.pk is None).
Anonymous == 0
\* A null Post.category; categories are named by their unique slug.
NoCategory == ""
\* settings.POSTS_LIMIT, the page size of the three listings.
POSTS_LIMIT == 1

Requesters == UserPks \cup {Anonymous}
PageArgs == 1..3

----------------------------------------------------------------------------
(* Helpers on finite functions                                             *)

Without(f, S) == [x \in (DOMAIN f) \ S |-> f[x]]

With(f, k, v) == [x \in (DOMAIN f) \cup {k} |-> IF x = k THEN v ELSE f[x]]

Range(s) == {s[i] : i \in DOMAIN s}

(* The last request and what the handler answered.  status is one of       *)
(* "ok" (a page is rendered), "form" (a form is shown or shown again),     *)
(* "login" (redirect to the login page), "detail" (redirect to a post's    *)
(* detail page), "profile" (redirect to a profile page), "404", "500".     *)
NoResponse ==
    [view |-> "none", who |-> Anonymous, username |-> "",
     slug |-> "", post |-> None, comment |-> None, page |-> 0,
     status |-> "none", listing |-> {}, items |-> <<>>, pages |-> <<>>]

----------------------------------------------------------------------------
(* models.py: the foreign keys and their on_delete rules                   *)

\* Post.author and Comment.author: models.CASCADE
PostsOfUser(u) == {p \in DOMAIN posts : posts[p].author = u}

\* Comment.post: models.CASCADE
CommentsOfPosts(P) == {c \in DOMAIN comments : comments[c].post \in P}

CommentsOfUser(u) == {c \in DOMAIN comments : comments[c].author = u}

\* Post.category: models.SET_NULL
CategorySetNull(slug) ==
    [p \in DOMAIN posts |->
        IF posts[p].category = slug
        THEN [posts[p] EXCEPT !.category = NoCategory]
        ELSE posts[p]]

\* Post.location: models.SET_NULL
LocationSetNull(l) ==
    [p \in DOMAIN posts |->
        IF posts[p].location = l
        THEN [posts[p] EXCEPT !.location = None]
        ELSE posts[p]]

\* Deleting a post deletes its comments with it.
DeletePostCascade(p) ==
    /\ posts' = Without(posts, {p})
    /\ comments' = Without(comments, CommentsOfPosts({p}))

\* A deletion of a user that leaves the user's comments on other users'
\* posts behind.
DeleteUserPostsOnly(u) ==
    /\ users' = Without(users, {u})
    /\ posts' = Without(posts, PostsOfUser(u))
    /\ comments' = Without(comments, CommentsOfPosts(PostsOfUser(u)))

\* Deleting a user deletes the user's posts, their comments, and the user's
\* own comments.
DeleteUserCascade(u) ==
    /\ users' = Without(users, {u})
    /\ posts' = Without(posts, PostsOfUser(u))
    /\ comments' = Without(comments,
                       CommentsOfPosts(PostsOfUser(u)) \cup CommentsOfUser(u))

----------------------------------------------------------------------------
(* Operations outside blog/views.py: registration, the admin site, time    *)

Init ==
    /\ users = <<>>
    /\ categories = <<>>
    /\ locations = <<>>
    /\ posts = <<>>
    /\ comments = <<>>
    /\ nextUser = 1
    /\ nextPost = 1
    /\ nextComment = 1
    /\ now = 0
    /\ loaded = 0
    /\ response = NoResponse

\* auth/registration/: CreateView over UserCreationForm; usernames are unique.
Registration ==
    \E name \in Usernames :
        /\ nextUser <= MaxUsers
        /\ \A u \in DOMAIN users : users[u] # name
        /\ users' = With(users, nextUser, name)
        /\ nextUser' = nextUser + 1
        /\ response' = NoResponse
        /\ UNCHANGED <<categories, locations, posts, comments, nextPost,
                       nextComment, now, loaded>>

\* CategoryAdmin: add a category, or change is_published (list_editable).
AdminSaveCategory ==
    \E slug \in Slugs, flag \in BOOLEAN :
        /\ categories' = With(categories, slug, [is_published |-> flag])
        /\ response' = NoResponse
        /\ UNCHANGED <<users, locations, posts, comments, nextUser, nextPost,
                       nextComment, now, loaded>>

AdminDeleteCategory ==
    \E slug \in DOMAIN categories :
        /\ categories' = Without(categories, {slug})
        /\ posts' = CategorySetNull(slug)
        /\ response' = NoResponse
        /\ UNCHANGED <<users, locations, comments, nextUser, nextPost,
                       nextComment, now, loaded>>

\* LocationAdmin: add a location, or change is_published (list_editable).
AdminSaveLocation ==
    \E l \in LocationPks, flag \in BOOLEAN :
        /\ locations' = With(locations, l, [is_published |-> flag])
        /\ response' = NoResponse
        /\ UNCHANGED <<users, categories, posts, comments, nextUser, nextPost,
                       nextComment, now, loaded>>

AdminDeleteLocation ==
    \E l \in DOMAIN locations :
        /\ locations' = Without(locations, {l})
        /\ posts' = LocationSetNull(l)
        /\ response' = NoResponse
        /\ UNCHANGED <<users, categories, comments, nextUser, nextPost,
                       nextComment, now, loaded>>

\* PostAdmin: is_published is list_editable (the post form leaves it out).
AdminPublishPost ==
    \E p \in DOMAIN posts, flag \in BOOLEAN :
        /\ posts[p].is_published # flag
        /\ posts' = [posts EXCEPT ![p].is_published = flag]
        /\ response' = NoResponse
        /\ UNCHANGED <<users, categories, locations, comments, nextUser,
                       nextPost, nextComment, now, loaded>>

\* The user admin: deleting a user cascades.
AdminDeleteUser ==
    \E u \in DOMAIN users :
        /\ DeleteUserCascade(u)
        /\ response' = NoResponse
        /\ UNCHANGED <<categories, locations, nextUser, nextPost, nextComment,
                       now, loaded>>

\* Time passes.
Tick ==
    /\ now < MaxTime
    /\ now' = now + 1
    /\ response' = NoResponse
    /\ UNCHANGED <<db, loaded>>

\* The server process starts again: blog/views.py is imported anew.
Reload ==
    /\ loaded # now
    /\ loaded' = now
    /\ response' = NoResponse
    /\ UNCHANGED <<db, now>>

----------------------------------------------------------------------------
(* Querysets: the filters, the ordering, the paginator                     *)

\* filter(pub_date__lte=t, is_published=True, category__is_published=True,
\* location__is_published=True): the two lookups across a foreign key are
\* inner joins, so a post whose category or location is null matches neither.
published_filter(p, t) ==
    /\ posts[p].pub_date <= t
    /\ posts[p].is_published
    /\ posts[p].category \in DOMAIN categories
    /\ categories[posts[p].category].is_published
    /\ posts[p].location \in DOMAIN locations
    /\ locations[posts[p].location].is_published

\* PublishedPostsManager.get_queryset, called at time t.
get_queryset(t) == {p \in DOMAIN posts : published_filter(p, t)}

\* Post.Meta.ordering = ('-pub_date',): the orders of the rows of S that the
\* database may return; rows with equal pub_date come in any order.
PostOrderings(S) ==
    {f \in [1..Cardinality(S) -> S] :
        /\ \A i, j \in DOMAIN f : i # j => f[i] # f[j]
        /\ \A i, j \in DOMAIN f : i < j => posts[f[i]].pub_date >= posts[f[j]].pub_date}

\* The comments newest first.
CommentOrderingsDesc(S) ==
    {f \in [1..Cardinality(S) -> S] :
        /\ \A i, j \in DOMAIN f : i # j => f[i] # f[j]
        /\ \A i, j \in DOMAIN f : i < j =>
              comments[f[i]].created_at >= comments[f[j]].created_at}

\* Comment.Meta.ordering = ('created_at',)
CommentOrderings(S) ==
    {f \in [1..Cardinality(S) -> S] :
        /\ \A i, j \in DOMAIN f : i # j => f[i] # f[j]
        /\ \A i, j \in DOMAIN f : i < j =>
              comments[f[i]].created_at <= comments[f[j]].created_at}

\* Paginator.num_pages: ceil(count / per_page), and 1 for an empty list
\* (allow_empty_first_page).
num_pages(count) ==
    IF count = 0 THEN 1 ELSE (count + POSTS_LIMIT - 1) \div POSTS_LIMIT

\* Paginator.page(number): the slice [bottom, top) of the ordered rows.
page_items(rows, number) ==
    LET bottom == (number - 1) * POSTS_LIMIT
        top == IF bottom + POSTS_LIMIT >= Len(rows) THEN Len(rows)
               ELSE bottom + POSTS_LIMIT
    IN  SubSeq(rows, bottom + 1, top)

\* Paginator.get_page(number): a number past the last page gives the last page.
get_page_number(count, number) ==
    IF number > num_pages(count) THEN num_pages(count) ELSE number

\* The pages a requester has been served of one listing while nothing else
\* happened: the earlier ones when the last response was a page of the same
\* listing, and the new one.
Served(view, who, key, number, items) ==
    IF /\ response.view = view
       /\ response.status = "ok"
       /\ response.who = who
       /\ response.slug = key.slug
       /\ response.username = key.username
    THEN With(response.pages, number, items)
    ELSE With(<<>>, number, items)

ListingResponse(view, who, key, S, rows, number) ==
    [NoResponse EXCEPT !.view = view, !.who = who, !.slug = key.slug,
                       !.username = key.username, !.status = "ok",
                       !.listing = S, !.page = number,
                       !.items = page_items(rows, number),
                       !.pages = Served(view, who, key, number,
                                        page_items(rows, number))]

\* A response that carries no listing.
ViewResponse(view, who, status) ==
    [NoResponse EXCEPT !.view = view, !.who = who, !.status = status]

\* request.user: anonymous, or an existing user.
IsRequester(who) == who = Anonymous \/ who \in DOMAIN users

NoKey == [slug |-> "", username |-> ""]

----------------------------------------------------------------------------
(* blog/views.py: the pages that read                                      *)

\* The posts category_posts lists for an existing category.
category_queryset(slug) ==
    {p \in DOMAIN posts :
        /\ posts[p].category = slug
        /\ posts[p].is_published
        /\ posts[p].pub_date <= now}

category_posts ==
    \E who \in Requesters, slug \in Slugs, number \in PageArgs :
        /\ IsRequester(who)
        /\ IF slug \in DOMAIN categories /\ categories[slug].is_published
           THEN \E rows \in PostOrderings(category_queryset(slug)) :
                    response' = ListingResponse(
                        "category_posts", who,
                        [slug |-> slug, username |-> ""],
                        category_queryset(slug), rows,
                        get_page_number(Len(rows), number))
           ELSE response' = [ViewResponse("category_posts", who, "404")
                                EXCEPT !.slug = slug]
        /\ UNCHANGED <<db, now, loaded>>

\* The posts user_profile lists for the user with pk u.
profile_queryset(who, u) ==
    IF who = u THEN PostsOfUser(u)
    ELSE {p \in PostsOfUser(u) : published_filter(p, now)}

user_profile ==
    \E who \in Requesters, username \in Usernames, number \in PageArgs :
        /\ IsRequester(who)
        /\ IF \E u \in DOMAIN users : users[u] = username
           THEN LET u == CHOOSE u \in DOMAIN users : users[u] = username
                IN  \E rows \in PostOrderings(profile_queryset(who, u)) :
                        response' = ListingResponse(
                            "user_profile", who,
                            [slug |-> "", username |-> username],
                            profile_queryset(who, u), rows,
                            get_page_number(Len(rows), number))
           ELSE response' = [ViewResponse("user_profile", who, "404")
                                EXCEPT !.username = username]
        /\ UNCHANGED <<db, now, loaded>>

\* IndexListView.queryset is built once, in the class body, when the module
\* is imported: its pub_date bound is the time of the import.  ListView's
\* paginate_queryset answers 404 for a page past the last one.
index_queryset == get_queryset(loaded)

IndexListView ==
    \E who \in Requesters, number \in PageArgs :
        /\ IsRequester(who)
        /\ IF number <= num_pages(Cardinality(index_queryset))
           THEN \E rows \in PostOrderings(index_queryset) :
                    response' = ListingResponse("index", who, NoKey,
                                                index_queryset, rows, number)
           ELSE response' = ViewResponse("index", who, "404")
        /\ UNCHANGED <<db, now, loaded>>

\* PostDetailView.dispatch: the condition as Python evaluates it, left to
\* right; post.category.is_published and post.location.is_published raise
\* AttributeError when the foreign key is null.
detail_status(who, p) ==
    IF p \notin DOMAIN posts THEN "404"
    ELSE IF ~posts[p].is_published
         THEN IF posts[p].author = who THEN "ok" ELSE "404"
    ELSE IF posts[p].category = NoCategory THEN "500"
    ELSE IF ~categories[posts[p].category].is_published
         THEN IF posts[p].author = who THEN "ok" ELSE "404"
    ELSE IF posts[p].location = None THEN "500"
    ELSE IF ~locations[posts[p].location].is_published
         THEN IF posts[p].author = who THEN "ok" ELSE "404"
    ELSE IF posts[p].pub_date <= now THEN "ok"
    ELSE IF posts[p].author = who THEN "ok" ELSE "404"

PostDetailView ==
    \E who \in Requesters, p \in PostPks :
        /\ IsRequester(who)
        /\ IF detail_status(who, p) = "ok"
           THEN \E rows \in CommentOrderings(CommentsOfPosts({p})) :
                    response' = [ViewResponse("post_detail", who, "ok")
                                    EXCEPT !.post = p,
                                           !.listing = CommentsOfPosts({p}),
                                           !.items = rows]
           ELSE response' = [ViewResponse("post_detail", who,
                                           detail_status(who, p))
                                EXCEPT !.post = p]
        /\ UNCHANGED <<db, now, loaded>>

----------------------------------------------------------------------------
(* blog/views.py: the pages that write.  The checks of dispatch come       *)
(* before the method of the request is looked at, so one branch stands for *)
(* GET and POST alike; past dispatch, GET shows the form (or the           *)
(* confirmation page), a POST with an invalid form shows the form again,   *)
(* and a valid POST writes.                                                *)

\* PostForm: every field but author and is_published.  category is required
\* and must be an existing category; location may be left empty.
PostFormValid(category, location) ==
    /\ category \in DOMAIN categories
    /\ location = None \/ location \in DOMAIN locations

\* LoginRequiredMixin.dispatch / @login_required
authenticated(who) == who # Anonymous

Answer(view, who, p, c, status) ==
    [NoResponse EXCEPT !.view = view, !.who = who, !.post = p, !.comment = c,
                       !.status = status]

\* form.instance.author = request.user; is_published keeps its default and
\* created_at is auto_now_add.
NewPost(who, category, location, pub_date) ==
    [author |-> who, is_published |-> TRUE, category |-> category,
     location |-> location, pub_date |-> pub_date, created_at |-> now]

\* PostCreateView: LoginRequiredMixin, then CreateView.
PostCreateView(cap) ==
    \E who \in Requesters :
        /\ IsRequester(who)
        /\ \/ /\ ~authenticated(who)
              /\ response' = Answer("create_post", who, None, None, "login")
              /\ UNCHANGED <<posts, nextPost>>
           \/ /\ authenticated(who)
              /\ response' = Answer("create_post", who, None, None, "form")
              /\ UNCHANGED <<posts, nextPost>>
           \/ /\ authenticated(who)
              /\ nextPost <= cap
              /\ \E category \in Slugs, location \in LocationPks \cup {None},
                    pub_date \in Times :
                    /\ PostFormValid(category, location)
                    /\ posts' = With(posts, nextPost,
                                     NewPost(who, category, location, pub_date))
              /\ nextPost' = nextPost + 1
              /\ response' = Answer("create_post", who, nextPost, None, "profile")
        /\ UNCHANGED <<users, categories, locations, comments, nextUser,
                       nextComment, now, loaded>>

\* A dispatch that lets every authenticated requester through.
post_modification_dispatch_any(who, p) ==
    IF ~authenticated(who) THEN "login"
    ELSE IF p \notin DOMAIN posts THEN "404"
    ELSE "pass"

\* PostModificationMixin.dispatch, reached after LoginRequiredMixin.dispatch:
\* "login", "404", "detail" (redirect of a requester who is not the author),
\* or "pass" when the view itself runs.
post_modification_dispatch(who, p) ==
    IF ~authenticated(who) THEN "login"
    ELSE IF p \notin DOMAIN posts THEN "404"
    ELSE IF posts[p].author # who THEN "detail"
    ELSE "pass"

\* PostUpdateView
PostUpdateView ==
    \E who \in Requesters, p \in PostPks :
        /\ IsRequester(who)
        /\ \/ /\ post_modification_dispatch(who, p) # "pass"
              /\ response' = Answer("edit_post", who, p, None,
                                    post_modification_dispatch(who, p))
              /\ UNCHANGED posts
           \/ /\ post_modification_dispatch(who, p) = "pass"
              /\ response' = Answer("edit_post", who, p, None, "form")
              /\ UNCHANGED posts
           \/ /\ post_modification_dispatch(who, p) = "pass"
              /\ \E category \in Slugs, location \in LocationPks \cup {None},
                    pub_date \in Times :
                    /\ PostFormValid(category, location)
                    /\ posts' = [posts EXCEPT ![p].category = category,
                                              ![p].location = location,
                                              ![p].pub_date = pub_date]
              /\ response' = Answer("edit_post", who, p, None, "detail")
        /\ UNCHANGED <<users, categories, locations, comments, nextUser,
                       nextPost, nextComment, now, loaded>>

\* PostDeleteView: GET shows the confirmation page, POST deletes.
PostDeleteView ==
    \E who \in Requesters, p \in PostPks :
        /\ IsRequester(who)
        /\ \/ /\ post_modification_dispatch(who, p) # "pass"
              /\ response' = Answer("delete_post", who, p, None,
                                    post_modification_dispatch(who, p))
              /\ UNCHANGED <<posts, comments>>
           \/ /\ post_modification_dispatch(who, p) = "pass"
              /\ response' = Answer("delete_post", who, p, None, "form")
              /\ UNCHANGED <<posts, comments>>
           \/ /\ post_modification_dispatch(who, p) = "pass"
              /\ DeletePostCascade(p)
              /\ response' = Answer("delete_post", who, p, None, "profile")
        /\ UNCHANGED <<users, categories, locations, nextUser, nextPost,
                       nextComment, now, loaded>>

\* add_comment: "login" (@login_required), "404" (no such post), or "pass".
add_comment_dispatch(who, p) ==
    IF ~authenticated(who) THEN "login"
    ELSE IF p \notin DOMAIN posts THEN "404"
    ELSE "pass"

\* comment.author = request.user; comment.post = post; created_at is
\* auto_now_add.
NewComment(who, p, text) ==
    [post |-> p, author |-> who, created_at |-> now, text |-> text]

\* add_comment: the comment is saved when the form is valid (a text is
\* given), and the answer is the redirect to the post either way.
add_comment(cap) ==
    \E who \in Requesters, p \in PostPks :
        /\ IsRequester(who)
        /\ \/ /\ add_comment_dispatch(who, p) # "pass"
              /\ response' = Answer("add_comment", who, p, None,
                                    add_comment_dispatch(who, p))
              /\ UNCHANGED <<comments, nextComment>>
           \/ /\ add_comment_dispatch(who, p) = "pass"
              /\ response' = Answer("add_comment", who, p, None, "detail")
              /\ UNCHANGED <<comments, nextComment>>
           \/ /\ add_comment_dispatch(who, p) = "pass"
              /\ nextComment <= cap
              /\ \E text \in Texts :
                    comments' = With(comments, nextComment,
                                     NewComment(who, p, text))
              /\ nextComment' = nextComment + 1
              /\ response' = Answer("add_comment", who, p, nextComment, "detail")
        /\ UNCHANGED <<users, categories, locations, posts, nextUser, nextPost,
                       now, loaded>>

\* A lookup of the comment that leaves out author=request.user.
comment_dispatch_any(who, p, c) ==
    IF ~authenticated(who) THEN "login"
    ELSE IF ~(c \in DOMAIN comments /\ comments[c].post = p) THEN "404"
    ELSE "pass"

\* CommentMixin.dispatch, reached after LoginRequiredMixin.dispatch:
\* get_object_or_404(Comment, pk=comment_id, author=request.user,
\* post__pk=post_id).
comment_dispatch(who, p, c) ==
    IF ~authenticated(who) THEN "login"
    ELSE IF ~(/\ c \in DOMAIN comments
              /\ comments[c].author = who
              /\ comments[c].post = p) THEN "404"
    ELSE "pass"

\* CommentUpdateView: CommentForm holds the text only.
CommentUpdateView ==
    \E who \in Requesters, p \in PostPks, c \in CommentPks :
        /\ IsRequester(who)
        /\ \/ /\ comment_dispatch(who, p, c) # "pass"
              /\ response' = Answer("edit_comment", who, p, c,
                                    comment_dispatch(who, p, c))
              /\ UNCHANGED comments
           \/ /\ comment_dispatch(who, p, c) = "pass"
              /\ response' = Answer("edit_comment", who, p, c, "form")
              /\ UNCHANGED comments
           \/ /\ comment_dispatch(who, p, c) = "pass"
              /\ \E text \in Texts :
                    comments' = [comments EXCEPT ![c].text = text]
              /\ response' = Answer("edit_comment", who, p, c, "detail")
        /\ UNCHANGED <<users, categories, locations, posts, nextUser, nextPost,
                       nextComment, now, loaded>>

\* CommentDeleteView
CommentDeleteView ==
    \E who \in Requesters, p \in PostPks, c \in CommentPks :
        /\ IsRequester(who)
        /\ \/ /\ comment_dispatch(who, p, c) # "pass"
              /\ response' = Answer("delete_comment", who, p, c,
                                    comment_dispatch(who, p, c))
              /\ UNCHANGED comments
           \/ /\ comment_dispatch(who, p, c) = "pass"
              /\ response' = Answer("delete_comment", who, p, c, "form")
              /\ UNCHANGED comments
           \/ /\ comment_dispatch(who, p, c) = "pass"
              /\ comments' = Without(comments, {c})
              /\ response' = Answer("delete_comment", who, p, c, "detail")
        /\ UNCHANGED <<users, categories, locations, posts, nextUser, nextPost,
                       nextComment, now, loaded>>

\* UserUpdateView.dispatch runs before LoginRequiredMixin.dispatch:
\* get_object_or_404(User, pk=request.user.pk, username=username).  The
\* anonymous user's pk is None, which matches no row.
user_update_dispatch(who, username) ==
    IF ~(who \in DOMAIN users /\ users[who] = username) THEN "404"
    ELSE IF ~authenticated(who) THEN "login"
    ELSE "pass"

\* UserUpdateView: ProfileChangeForm changes the username, which stays unique.
UserUpdateView ==
    \E who \in Requesters, username \in Usernames :
        /\ IsRequester(who)
        /\ \/ /\ user_update_dispatch(who, username) # "pass"
              /\ response' = [Answer("edit_profile", who, None, None,
                                     user_update_dispatch(who, username))
                                 EXCEPT !.username = username]
              /\ UNCHANGED users
           \/ /\ user_update_dispatch(who, username) = "pass"
              /\ response' = [Answer("edit_profile", who, None, None, "form")
                                 EXCEPT !.username = username]
              /\ UNCHANGED users
           \/ /\ user_update_dispatch(who, username) = "pass"
              /\ \E name \in Usernames :
                    /\ \A u \in DOMAIN users : u # who => users[u] # name
                    /\ users' = [users EXCEPT ![who] = name]
              /\ response' = [Answer("edit_profile", who, None, None, "profile")
                                 EXCEPT !.username = username]
        /\ UNCHANGED <<categories, locations, posts, comments, nextUser,
                       nextPost, nextComment, now, loaded>>

----------------------------------------------------------------------------
(* Specifications.  Each starts from the empty database and runs the       *)
(* handlers of one part of the site together with the operations that part *)
(* depends on.                                                             *)

\* Posts and profiles: every page but the comment handlers.
Next ==
    \/ Registration
    \/ AdminSaveCategory
    \/ AdminDeleteCategory
    \/ AdminSaveLocation
    \/ AdminDeleteLocation
    \/ AdminPublishPost
    \/ Tick
    \/ Reload
    \/ category_posts
    \/ user_profile
    \/ IndexListView
    \/ PostDetailView
    \/ PostCreateView(MaxPosts)
    \/ PostUpdateView
    \/ PostDeleteView
    \/ UserUpdateView

Spec == Init /\ [][Next]_vars

\* The listings and their pages.
NextPages ==
    \/ Registration
    \/ AdminSaveCategory
    \/ AdminSaveLocation
    \/ Tick
    \/ PostCreateView(MaxListed)
    \/ category_posts
    \/ user_profile
    \/ IndexListView

SpecPages == Init /\ [][NextPages]_vars

\* Comments.
NextComments ==
    \/ Registration
    \/ AdminSaveCategory
    \/ Tick
    \/ PostCreateView(MaxPosts)
    \/ PostDetailView
    \/ add_comment(MaxComments)
    \/ CommentUpdateView
    \/ CommentDeleteView

SpecComments == Init /\ [][NextComments]_vars

\* Every operation that writes to the database.
NextStore ==
    \/ Registration
    \/ AdminSaveCategory
    \/ AdminDeleteCategory
    \/ AdminSaveLocation
    \/ AdminDeleteLocation
    \/ AdminPublishPost
    \/ AdminDeleteUser
    \/ PostCreateView(MaxPosts)
    \/ PostUpdateView
    \/ PostDeleteView
    \/ add_comment(MaxStored)
    \/ CommentUpdateView
    \/ CommentDeleteView
    \/ UserUpdateView

SpecStore == Init /\ [][NextStore]_vars

\* Publication over time: posts are created and shown, their flags and
\* those of their category and location change, and no post is edited or
\* deleted.
NextSchedule ==
    \/ Registration
    \/ AdminSaveCategory
    \/ AdminSaveLocation
    \/ AdminPublishPost
    \/ Tick
    \/ Reload
    \/ PostCreateView(MaxPosts)
    \/ category_posts
    \/ user_profile
    \/ IndexListView
    \/ PostDetailView

SpecSchedule == Init /\ [][NextSchedule]_vars

----------------------------------------------------------------------------
(* The visibility predicate as the specification states it (section 4.1):  *)
(* the category and the location are looked at only when they are set.     *)

PubliclyVisible(p, t) ==
    /\ posts[p].is_published
    /\ posts[p].category # NoCategory =>
           categories[posts[p].category].is_published
    /\ posts[p].location # None => locations[posts[p].location].is_published
    /\ posts[p].pub_date <= t

VisibleTo(who, p, t) == PubliclyVisible(p, t) \/ posts[p].author = who

UserNamed(username) == CHOOSE u \in DOMAIN users : users[u] = username

----------------------------------------------------------------------------
(* C1: a post is in the home listing served to an anonymous viewer if and  *)
(* only if it is publicly visible at the current time: it is published,    *)
(* its category is published if set, its location is published if set,     *)
(* and its pub_date is not after the current time.                         *)
C1_IndexListsVisible ==
    (/\ response.view = "index"
     /\ response.status = "ok"
     /\ response.who = Anonymous)
    => \A p \in DOMAIN posts :
          p \in response.listing <=> PubliclyVisible(p, now)

(* C2: post detail returns the post exactly when it exists and is publicly *)
(* visible or the requester is its author; every other request, and one    *)
(* for a missing post, is answered 404 and never by another error.         *)
C2_DetailVisibleOrAuthor ==
    response.view = "post_detail"
    => IF /\ response.post \in DOMAIN posts
          /\ VisibleTo(response.who, response.post, now)
       THEN response.status = "ok"
       ELSE response.status = "404"

(* C3: the profile listing of user A holds all of A's posts when A asks    *)
(* for it, and exactly A's publicly visible posts for every other viewer.  *)
C3_ProfileListing ==
    (response.view = "user_profile" /\ response.status = "ok")
    => LET u == UserNamed(response.username)
       IN  IF response.who = u
           THEN response.listing = PostsOfUser(u)
           ELSE response.listing =
                    {p \in PostsOfUser(u) : PubliclyVisible(p, now)}

PostViews == {"edit_post", "delete_post"}

\* One step, seen from the response it leaves (C4).
C4_Step ==
    /\ (/\ response'.view \in PostViews
        /\ authenticated(response'.who)
        /\ response'.post \in DOMAIN posts
        /\ posts[response'.post].author # response'.who)
       => (response'.status = "detail" /\ db' = db)
    /\ (response'.view \in PostViews /\ posts' # posts)
       => /\ response'.post \in DOMAIN posts
          /\ posts[response'.post].author = response'.who
          /\ \A q \in DOMAIN posts \ {response'.post} :
                q \in DOMAIN posts' /\ posts'[q] = posts[q]

(* C4: an authenticated requester who is not the author of an existing     *)
(* post and asks to edit or delete it is redirected to the post's detail   *)
(* page and nothing stored changes; whenever one of the two views changes  *)
(* the posts, the requester is the author of the post named in the request *)
(* and every other post is left as it was.                                 *)
C4_OnlyAuthorModifies == [][C4_Step]_vars

\* C4's case: a non-author has asked to edit or delete an existing post.
C4_NonAuthorRedirected ==
    /\ response.view \in PostViews
    /\ response.status = "detail"
    /\ response.post \in DOMAIN posts
    /\ authenticated(response.who)
    /\ posts[response.post].author # response.who

MutationViews ==
    {"create_post", "edit_post", "delete_post", "add_comment", "edit_comment",
     "delete_comment", "edit_profile"}

(* C5: every mutation request of an unauthenticated requester is answered  *)
(* by the redirect to the login page, whatever it names.                   *)
C5_AnonymousToLogin ==
    (response.view \in MutationViews /\ response.who = Anonymous)
    => response.status = "login"

(* C6: the listing of a published category C served to viewer V holds post *)
(* P if and only if P is in C and P is published, its location is          *)
(* published if set and its pub_date has come, or V is P's author; so a    *)
(* post of C is listed for V exactly when post detail returns it to V.     *)
(* A missing or unpublished category is answered 404.                      *)
C6_CategoryListingUniform ==
    response.view = "category_posts"
    => IF /\ response.slug \in DOMAIN categories
          /\ categories[response.slug].is_published
       THEN /\ response.status = "ok"
            /\ \A p \in DOMAIN posts :
                  p \in response.listing
                  <=> /\ posts[p].category = response.slug
                      /\ VisibleTo(response.who, p, now)
            /\ \A p \in DOMAIN posts :
                  posts[p].category = response.slug
                  => (p \in response.listing
                      <=> detail_status(response.who, p) = "ok")
       ELSE response.status = "404"

CommentViews == {"edit_comment", "delete_comment"}

(* C7 as stated: an authenticated requester who is not the author of an    *)
(* existing comment and asks to edit or delete it is redirected to the     *)
(* detail page of the comment's post.                                      *)
C7_NonAuthorCommentRedirected ==
    (/\ response.view \in CommentViews
     /\ authenticated(response.who)
     /\ response.comment \in DOMAIN comments
     /\ comments[response.comment].author # response.who)
    => response.status = "detail"

\* One step, seen from the response it leaves (C7).
C7_Step ==
    /\ (/\ response'.view \in CommentViews
        /\ authenticated(response'.who)
        /\ response'.comment \in DOMAIN comments
        /\ comments[response'.comment].author # response'.who)
       => (response'.status = "404" /\ db' = db)
    /\ (response'.view \in CommentViews /\ comments' # comments)
       => /\ response'.comment \in DOMAIN comments
          /\ comments[response'.comment].author = response'.who
          /\ \A c \in DOMAIN comments \ {response'.comment} :
                c \in DOMAIN comments' /\ comments'[c] = comments[c]

(* C7 as amended: an authenticated requester who is not the author of an   *)
(* existing comment and asks to edit or delete it is answered 404 and      *)
(* nothing stored changes; whenever one of the two views changes the       *)
(* comments, the requester is the author of the comment named in the       *)
(* request and every other comment is left as it was.                      *)
C7_OnlyAuthorModifiesComment == [][C7_Step]_vars

\* C7's case: a non-author has asked to edit or delete an existing comment
\* of the post named in the request.
C7_NonAuthorRefused ==
    /\ response.view \in CommentViews
    /\ response.status = "404"
    /\ authenticated(response.who)
    /\ response.comment \in DOMAIN comments
    /\ comments[response.comment].author # response.who
    /\ comments[response.comment].post = response.post

ListingViews == {"index", "category_posts", "user_profile"}

PostsDescending(s) ==
    \A i, j \in DOMAIN s : i < j => posts[s[i]].pub_date >= posts[s[j]].pub_date

(* C8: of the pages of one listing served while nothing else happens, each *)
(* holds at most POSTS_LIMIT posts in descending pub_date order, every     *)
(* post of a page has a pub_date not before that of any post of a later    *)
(* page, no post is on two pages, and once every page has been served each *)
(* post of the listing has been on one.                                    *)
C8_Pagination ==
    (response.view \in ListingViews /\ response.status = "ok")
    => LET pages == response.pages
       IN  /\ \A n \in DOMAIN pages :
                 /\ Len(pages[n]) <= POSTS_LIMIT
                 /\ PostsDescending(pages[n])
                 /\ Cardinality(Range(pages[n])) = Len(pages[n])
           /\ \A n, m \in DOMAIN pages :
                 n < m => \A a \in Range(pages[n]), b \in Range(pages[m]) :
                             posts[a].pub_date >= posts[b].pub_date
           /\ \A n, m \in DOMAIN pages :
                 n # m => Range(pages[n]) \cap Range(pages[m]) = {}
           /\ DOMAIN pages = 1..num_pages(Cardinality(response.listing))
              => UNION {Range(pages[n]) : n \in DOMAIN pages} = response.listing

\* What post detail has retrieved (C9).
C9_Retrieved ==
    (response.view = "post_detail" /\ response.status = "ok")
    => /\ Range(response.items) =
              {c \in DOMAIN comments : comments[c].post = response.post}
       /\ Len(response.items) = Cardinality(Range(response.items))
       /\ \A i, j \in DOMAIN response.items :
             i < j => comments[response.items[i]].created_at
                          <= comments[response.items[j]].created_at

\* What an edit of a comment leaves alone (C9).
C9_EditStep ==
    response'.view = "edit_comment"
    => /\ DOMAIN comments' = DOMAIN comments
       /\ \A c \in DOMAIN comments :
             /\ comments'[c].created_at = comments[c].created_at
             /\ comments'[c].post = comments[c].post
       /\ \A p \in PostPks :
             CommentOrderings(CommentsOfPosts({p}))' =
                 CommentOrderings(CommentsOfPosts({p}))

(* C9: the comments post detail retrieves for a post are exactly the       *)
(* existing comments attached to it, each once, in ascending order of      *)
(* created_at; editing a comment changes neither the created_at nor the    *)
(* post of any comment, so the orders in which the comments of a post can  *)
(* be retrieved stay the same.                                             *)
C9_CommentsByCreation == []C9_Retrieved /\ [][C9_EditStep]_vars

\* C9's case: two comments made at different times have been retrieved.
C9_TwoCommentsRetrieved ==
    /\ response.view = "post_detail"
    /\ response.status = "ok"
    /\ Len(response.items) = 2
    /\ comments[response.items[1]].created_at
           < comments[response.items[2]].created_at
    /\ comments[response.items[1]].text # comments[response.items[2]].text

\* Every reference is null or names an existing record (C10).
C10_Integrity ==
    /\ \A p \in DOMAIN posts :
          /\ posts[p].author \in DOMAIN users
          /\ posts[p].category = NoCategory
                \/ posts[p].category \in DOMAIN categories
          /\ posts[p].location = None \/ posts[p].location \in DOMAIN locations
    /\ \A c \in DOMAIN comments :
          /\ comments[c].post \in DOMAIN posts
          /\ comments[c].author \in DOMAIN users

\* What a deletion removes and what it keeps (C10).
C10_DeleteStep ==
    /\ \A u \in DOMAIN users \ DOMAIN users' :
          /\ posts' = Without(posts, PostsOfUser(u))
          /\ comments' = Without(comments, CommentsOfUser(u)
                                 \cup CommentsOfPosts(PostsOfUser(u)))
    /\ \A p \in DOMAIN posts \ DOMAIN posts' :
          DOMAIN users' = DOMAIN users =>
              /\ posts' = Without(posts, {p})
              /\ comments' = Without(comments, CommentsOfPosts({p}))
    /\ \A slug \in DOMAIN categories \ DOMAIN categories' :
          /\ DOMAIN posts' = DOMAIN posts
          /\ \A p \in DOMAIN posts :
                posts'[p] = IF posts[p].category = slug
                            THEN [posts[p] EXCEPT !.category = NoCategory]
                            ELSE posts[p]
    /\ \A l \in DOMAIN locations \ DOMAIN locations' :
          /\ DOMAIN posts' = DOMAIN posts
          /\ \A p \in DOMAIN posts :
                posts'[p] = IF posts[p].location = l
                            THEN [posts[p] EXCEPT !.location = None]
                            ELSE posts[p]

(* C10: every comment refers to an existing post and an existing author,   *)
(* every post to an existing author, and a post's category and location    *)
(* are null or existing records.  Deleting a user removes exactly that     *)
(* user's posts, the comments on them and the user's comments; deleting a  *)
(* post removes exactly its comments; deleting a category or a location    *)
(* keeps every post and sets to null the reference of those that used it.  *)
C10_ReferentialIntegrity == []C10_Integrity /\ [][C10_DeleteStep]_vars

\* C10's case: a user has been deleted, and a post that has a comment has
\* outlived its category.
C10_PostOutlivesCategory ==
    \E p \in DOMAIN posts :
        /\ posts[p].category = NoCategory
        /\ \E c \in DOMAIN comments : comments[c].post = p
        /\ nextUser > Cardinality(DOMAIN users) + 1

\* A post that was given a pub_date after the time of its creation and
\* that is published in a category and a location that are both published.
Scheduled(p) ==
    /\ posts[p].created_at < posts[p].pub_date
    /\ posts[p].is_published
    /\ posts[p].category \in DOMAIN categories
    /\ categories[posts[p].category].is_published
    /\ posts[p].location \in DOMAIN locations
    /\ locations[posts[p].location].is_published

\* The listings of post p that a requester other than its author is served.
PublicListingOf(p) ==
    /\ response.status = "ok"
    /\ response.who # posts[p].author
    /\ \/ response.view = "index"
       \/ response.view = "category_posts" /\ response.slug = posts[p].category
       \/ /\ response.view = "user_profile"
          /\ response.username = users[posts[p].author]

(* C11: a published post in a published category and location that was     *)
(* scheduled for a later time and has not been operated on since is, for   *)
(* a requester who is not its author, out of every listing served before   *)
(* its pub_date and answered 404 by post detail before its pub_date, and   *)
(* is in every listing of it served from pub_date on and returned by post  *)
(* detail from pub_date on.                                                *)
C11_ScheduledPublication ==
    \A p \in DOMAIN posts :
        Scheduled(p)
        => /\ PublicListingOf(p)
              => (p \in response.listing <=> posts[p].pub_date <= now)
           /\ (/\ response.view = "post_detail"
               /\ response.post = p
               /\ response.who # posts[p].author)
              => response.status =
                     IF posts[p].pub_date <= now THEN "ok" ELSE "404"

====
